---- MODULE Spec2Model ----
(***************************************************************************)
(* Model of KanbanDatabase (src/db/database.py): the boards, tasks and     *)
(* admin_roles tables of the SQLite store and the methods that read and    *)
(* write them.  Every method opens its own connection, runs its statements *)
(* and commits, so under Spec one method call is one atomic step.          *)
(***************************************************************************)
EXTENDS Integers, Sequences, FiniteSets, TLC

(* ------------------------------ bounds -------------------------------- *)
\* number of board ids / task ids AUTOINCREMENT may hand out in a run
MaxBoards == 2
MaxTasks == 1
\* most keys a **kwargs mapping of update_board / update_task carries
MaxKwargs == 1
\* largest reading of the store clock (CURRENT_TIMESTAMP) in a run
MaxClock == 2
\* number of tasks added in a run of the listing specification
MaxListed == 2
\* number of task rows in a store written before boards existed
MaxLegacyTasks == 3
\* most connections open at a time (the process's limit on open files)
MaxConnections == 3

(* ------------------------- program constants --------------------------- *)
VALID_STATUSES == {"todo", "doing", "done"}
BOARD_TYPES == {"personal", "public"}
\* Python's None as the return value of a method that otherwise returns a rowid
None == 0
\* sqlite3.connect() leaves PRAGMA foreign_keys at its default (off); no
\* statement of the module turns it on
foreign_keys == FALSE

(* ------------------------------ inputs -------------------------------- *)
Users == {"A", "U", "M"}
\* the identities set_admin / remove_admin are called for
AdminInputs == {"M"}
\* text values as sequences of characters: "", " " and "a"
Names == {<<>>, <<" ">>, <<"a">>}
BoardTypeInputs == BOARD_TYPES \cup {"shared"}
StatusInputs == VALID_STATUSES \cup {"blocked"}
BoardIdInputs == 1..MaxBoards
TaskIdInputs == 1..MaxTasks

\* a value bound to a statement parameter, or held in a column: its storage
\* class (for a Python datetime object, its type) and its literal
SqlNull == <<"null", <<>>>>
Text(s) == <<"text", s>>
Integer(s) == <<"integer", s>>
Datetime(s) == <<"datetime", s>>
\* the defaults of add_task: description='', priority=0, due_date=None
EmptyText == Text(<<>>)
Zero == Integer(<<"0">>)
Descriptions == {EmptyText}
Priorities == {Zero}
DueDates == {SqlNull}
\* a timestamp a caller passes as updated_at: one the store clock never shows
TimeInputs == {MaxClock + 1}

\* an optional keyword argument: {} when the key is absent, {v} when present
Opt(S) == {{}} \cup {{x} : x \in S}
Has(k) == k # {}
Val(k) == CHOOSE x \in k : TRUE
Keys(kw, names) == {f \in names : Has(kw[f])}

BoardFields == {"name", "board_type", "owner_id", "updated_at"}
\* update_task(self, task_id, user_id, **kwargs): the name user_id is bound to
\* the requester, so **kwargs never holds that key
TaskFields == {"title", "status", "board_id", "updated_at"}
BoardKwargs ==
    {kw \in [name : Opt(Names), board_type : Opt(BoardTypeInputs), owner_id : Opt(Users),
             updated_at : Opt(TimeInputs)] :
        Cardinality(Keys(kw, BoardFields)) <= MaxKwargs}
TaskKwargs ==
    {kw \in [title : Opt(Names), status : Opt(StatusInputs),
             board_id : Opt(BoardIdInputs), updated_at : Opt(TimeInputs)] :
        Cardinality(Keys(kw, TaskFields)) <= MaxKwargs}

(* ------------------------------- state -------------------------------- *)
VARIABLES
    boards,       \* boards table: id -> row
    tasks,        \* tasks table: id -> row
    admin_roles,  \* admin_roles table: user_id -> is_admin (0 / 1)
    board_seq,    \* sqlite_sequence entry of boards (largest id handed out)
    task_seq,     \* sqlite_sequence entry of tasks
    now,          \* the store clock: what CURRENT_TIMESTAMP evaluates to
    schema,       \* names of the tables and indices of the store (sqlite_master)
    frames,       \* session -> the method call it is in: its position and locals
    open_connections  \* connections opened by get_connection and not closed

\* what the methods on the tables leave alone when a call runs as one step
aux == <<now, schema, frames, open_connections>>

vars == <<boards, tasks, admin_roles, board_seq, task_seq, now, schema, frames,
          open_connections>>

(* --------------------------- str.strip() ------------------------------- *)
IsSpace(c) == c = " "

RECURSIVE lstrip(_)
lstrip(s) == IF s # <<>> /\ IsSpace(Head(s)) THEN lstrip(Tail(s)) ELSE s

RECURSIVE rstrip(_)
rstrip(s) ==
    IF s # <<>> /\ IsSpace(s[Len(s)]) THEN rstrip(SubSeq(s, 1, Len(s) - 1)) ELSE s

strip(s) == rstrip(lstrip(s))

(* ------------------ parameter binding and column affinity -------------- *)
Digits == {"0", "1", "2", "3", "4", "5", "6", "7", "8", "9"}

\* text that SQLite reads as an integer: digits only
IsIntegerLiteral(s) == s # <<>> /\ \A i \in 1..Len(s) : s[i] \in Digits

\* the literal of the integer a digit string denotes: leading zeros dropped
RECURSIVE canonical(_)
canonical(s) == IF Len(s) > 1 /\ Head(s) = "0" THEN canonical(Tail(s)) ELSE s

\* sqlite3's default adapters: a datetime object is bound as its ISO text;
\* get_connection registers no converter, so it is read back as text
adapt(v) == IF v[1] = "datetime" THEN Text(v[2]) ELSE v

\* column affinity INTEGER (tasks.priority) and NUMERIC (tasks.due_date,
\* declared DATETIME): text that is a well-formed integer is stored as integer
numeric_affinity(v) ==
    IF v[1] = "text" /\ IsIntegerLiteral(v[2]) THEN Integer(canonical(v[2])) ELSE v

\* column affinity TEXT (tasks.description, boards.description): a number is
\* stored as its text
text_affinity(v) == IF v[1] = "integer" THEN Text(v[2]) ELSE v

(* ----------------------------- is_admin -------------------------------- *)
\* faulty variant: `return result`, true as soon as a row exists
is_admin_mut(user_id) == user_id \in DOMAIN admin_roles

\* truth value of `result and result[0]`: a row exists and its is_admin is 1
is_admin(user_id) == user_id \in DOMAIN admin_roles /\ admin_roles[user_id] = 1

(* --------------------------- create_board ------------------------------ *)
\* the two checks made before the connection is opened
create_board_valid(name, board_type) ==
    /\ strip(name) # <<>>
    /\ board_type \in BOARD_TYPES

create_board_call(name, owner_id, description, board_type) ==
    IF ~create_board_valid(name, board_type)
    THEN [ret |-> None, boards |-> boards, board_seq |-> board_seq]
    ELSE LET board_id == board_seq + 1
         IN  [ret |-> board_id,
              boards |-> [i \in DOMAIN boards \cup {board_id} |->
                            IF i = board_id
                            THEN [name |-> name,
                                  description |-> text_affinity(adapt(description)),
                                  board_type |-> board_type, owner_id |-> owner_id,
                                  updated_at |-> now]
                            ELSE boards[i]],
              board_seq |-> board_id]

create_board(name, owner_id, description, board_type) ==
    LET r == create_board_call(name, owner_id, description, board_type)
    IN  /\ boards' = r.boards
        /\ board_seq' = r.board_seq
        /\ UNCHANGED <<tasks, admin_roles, task_seq, aux>>

(* --------------------------- update_board ------------------------------ *)
update_board_valid(kw) ==
    /\ ~(Has(kw.board_type) /\ Val(kw.board_type) \notin BOARD_TYPES)
    /\ Keys(kw, BoardFields) # {}

update_board_has_permission(owner_id, board_type, user_id) ==
    (owner_id = user_id) \/ (board_type = "public" /\ is_admin(user_id))

\* UPDATE boards SET <field> = ? ..., updated_at = CURRENT_TIMESTAMP: of two
\* assignments to one column SQLite keeps the last, so a key updated_at of the
\* mapping is overwritten by the clock
update_board_set(row, kw) ==
    [name |-> IF Has(kw.name) THEN Val(kw.name) ELSE row.name,
     description |-> row.description,
     board_type |-> IF Has(kw.board_type) THEN Val(kw.board_type) ELSE row.board_type,
     owner_id |-> IF Has(kw.owner_id) THEN Val(kw.owner_id) ELSE row.owner_id,
     updated_at |-> now]

\* faulty variant: the UPDATE is executed and committed before the permission check
update_board_call_mut(board_id, user_id, kw) ==
    IF ~update_board_valid(kw) THEN [ret |-> FALSE, boards |-> boards]
    ELSE IF board_id \notin DOMAIN boards THEN [ret |-> FALSE, boards |-> boards]
    ELSE [ret |-> update_board_has_permission(boards[board_id].owner_id,
                                              boards[board_id].board_type, user_id),
          boards |-> [boards EXCEPT ![board_id] = update_board_set(@, kw)]]

update_board_call(board_id, user_id, kw) ==
    IF ~update_board_valid(kw) THEN [ret |-> FALSE, boards |-> boards]
    ELSE IF board_id \notin DOMAIN boards THEN [ret |-> FALSE, boards |-> boards]
    ELSE IF ~update_board_has_permission(boards[board_id].owner_id,
                                         boards[board_id].board_type, user_id)
    THEN [ret |-> FALSE, boards |-> boards]
    ELSE [ret |-> TRUE,
          boards |-> [boards EXCEPT ![board_id] = update_board_set(@, kw)]]

\* faulty variant: a change of the board's type also drops the tasks on it
update_board_mut(board_id, user_id, kw) ==
    LET r == update_board_call(board_id, user_id, kw)
    IN  /\ boards' = r.boards
        /\ tasks' = IF r.boards # boards /\ Has(kw.board_type)
                    THEN [t \in {x \in DOMAIN tasks : tasks[x].board_id # board_id} |-> tasks[t]]
                    ELSE tasks
        /\ UNCHANGED <<admin_roles, board_seq, task_seq, aux>>

update_board(board_id, user_id, kw) ==
    LET r == update_board_call(board_id, user_id, kw)
    IN  /\ boards' = r.boards
        /\ UNCHANGED <<tasks, admin_roles, board_seq, task_seq, aux>>

(* --------------------------- delete_board ------------------------------ *)
\* faulty variant: the admin override without the test for a public board
delete_board_has_permission_mut(owner_id, board_type, user_id) ==
    (owner_id = user_id) \/ is_admin(user_id)

delete_board_has_permission(owner_id, board_type, user_id) ==
    (owner_id = user_id) \/ (board_type = "public" /\ is_admin(user_id))

\* DELETE FROM boards WHERE id = ?; the tasks of the board go with it only
\* when the connection enforces foreign keys
delete_board_rows(board_id) ==
    [boards |-> [i \in DOMAIN boards \ {board_id} |-> boards[i]],
     tasks |-> IF foreign_keys
               THEN [t \in {x \in DOMAIN tasks : tasks[x].board_id # board_id} |-> tasks[t]]
               ELSE tasks]

delete_board_call(board_id, user_id) ==
    IF board_id \notin DOMAIN boards
    THEN [ret |-> FALSE, boards |-> boards, tasks |-> tasks]
    ELSE IF ~delete_board_has_permission(boards[board_id].owner_id,
                                         boards[board_id].board_type, user_id)
    THEN [ret |-> FALSE, boards |-> boards, tasks |-> tasks]
    ELSE [ret |-> TRUE, boards |-> delete_board_rows(board_id).boards,
          tasks |-> delete_board_rows(board_id).tasks]

delete_board(board_id, user_id) ==
    LET r == delete_board_call(board_id, user_id)
    IN  /\ boards' = r.boards
        /\ tasks' = r.tasks
        /\ UNCHANGED <<admin_roles, board_seq, task_seq, aux>>

(* ------------------------ set_admin / remove_admin --------------------- *)
\* INSERT OR REPLACE INTO admin_roles (user_id, is_admin): True is stored as 1.
\* faulty variant: INSERT OR IGNORE, which keeps the row an identity already has
set_admin_call_mut(user_id, flag) ==
    [ret |-> TRUE,
     admin_roles |-> [u \in DOMAIN admin_roles \cup {user_id} |->
                        IF u \in DOMAIN admin_roles THEN admin_roles[u]
                        ELSE IF flag THEN 1 ELSE 0]]

set_admin_call(user_id, flag) ==
    [ret |-> TRUE,
     admin_roles |-> [u \in DOMAIN admin_roles \cup {user_id} |->
                        IF u = user_id THEN (IF flag THEN 1 ELSE 0) ELSE admin_roles[u]]]

set_admin(user_id, flag) ==
    LET r == set_admin_call(user_id, flag)
    IN  /\ admin_roles' = r.admin_roles
        /\ UNCHANGED <<boards, tasks, board_seq, task_seq, aux>>

remove_admin(user_id) ==
    LET r == set_admin_call(user_id, FALSE)
    IN  /\ admin_roles' = r.admin_roles
        /\ UNCHANGED <<boards, tasks, board_seq, task_seq, aux>>

(* ------------------------------ add_task ------------------------------- *)
\* faulty variant: `if not title` without strip()
add_task_valid_mut(title, status) ==
    /\ title # <<>>
    /\ status \in VALID_STATUSES

add_task_valid(title, status) ==
    /\ strip(title) # <<>>
    /\ status \in VALID_STATUSES

add_task_has_permission(owner_id, board_type, user_id) ==
    (owner_id = user_id) \/ (board_type = "public" /\ is_admin(user_id))

\* INSERT INTO tasks (...) VALUES (...); task_id = cursor.lastrowid; commit.
\* The INSERT raises sqlite3.IntegrityError (caught: return None) when board_id
\* names no board row and the connection enforces foreign keys
add_task_insert(board_id, user_id, title, description, status, priority, due_date) ==
    IF foreign_keys /\ board_id \notin DOMAIN boards
    THEN [ret |-> None, tasks |-> tasks, task_seq |-> task_seq]
    ELSE LET task_id == task_seq + 1
         IN  [ret |-> task_id,
              tasks |-> [i \in DOMAIN tasks \cup {task_id} |->
                           IF i = task_id
                           THEN [board_id |-> board_id, user_id |-> user_id,
                                 title |-> title,
                                 description |-> text_affinity(adapt(description)),
                                 status |-> status,
                                 priority |-> numeric_affinity(adapt(priority)),
                                 due_date |-> numeric_affinity(adapt(due_date)),
                                 created_at |-> now, updated_at |-> now]
                           ELSE tasks[i]],
              task_seq |-> task_id]

add_task_call(board_id, user_id, title, description, status, priority, due_date) ==
    IF ~add_task_valid(title, status)
    THEN [ret |-> None, tasks |-> tasks, task_seq |-> task_seq]
    ELSE IF board_id \notin DOMAIN boards
    THEN [ret |-> None, tasks |-> tasks, task_seq |-> task_seq]
    ELSE IF ~add_task_has_permission(boards[board_id].owner_id,
                                     boards[board_id].board_type, user_id)
    THEN [ret |-> None, tasks |-> tasks, task_seq |-> task_seq]
    ELSE add_task_insert(board_id, user_id, title, description, status, priority, due_date)

add_task(board_id, user_id, title, description, status, priority, due_date) ==
    LET r == add_task_call(board_id, user_id, title, description, status, priority, due_date)
    IN  /\ tasks' = r.tasks
        /\ task_seq' = r.task_seq
        /\ UNCHANGED <<boards, admin_roles, board_seq, aux>>

(* ------------------ task and board details (the JOIN) ------------------ *)
\* SELECT ... FROM tasks t JOIN boards b ON t.board_id = b.id WHERE t.id = ?
\* has a row only when the task exists and its board_id names a board row
task_join_found(task_id) ==
    task_id \in DOMAIN tasks /\ tasks[task_id].board_id \in DOMAIN boards

(* -------------------------- update_task_status ------------------------- *)
update_task_status_valid(new_status) == new_status \in VALID_STATUSES

update_task_status_has_permission(task_id, user_id) ==
    LET task_owner_id == tasks[task_id].user_id
        board_owner_id == boards[tasks[task_id].board_id].owner_id
        board_type == boards[tasks[task_id].board_id].board_type
        is_task_owner == user_id = task_owner_id
        is_board_owner == user_id = board_owner_id
        is_admin_on_public == board_type = "public" /\ is_admin(user_id)
    IN  is_task_owner \/ is_board_owner \/ is_admin_on_public

update_task_status_call(task_id, new_status, user_id) ==
    IF ~update_task_status_valid(new_status) THEN [ret |-> FALSE, tasks |-> tasks]
    ELSE IF ~task_join_found(task_id) THEN [ret |-> FALSE, tasks |-> tasks]
    ELSE IF ~update_task_status_has_permission(task_id, user_id) THEN [ret |-> FALSE, tasks |-> tasks]
    ELSE [ret |-> TRUE, tasks |-> [tasks EXCEPT ![task_id].status = new_status,
                                                ![task_id].updated_at = now]]

update_task_status(task_id, new_status, user_id) ==
    LET r == update_task_status_call(task_id, new_status, user_id)
    IN  /\ tasks' = r.tasks
        /\ UNCHANGED <<boards, admin_roles, board_seq, task_seq, aux>>

(* ------------------------------ update_task ---------------------------- *)
\* faulty variant: the status check is missing
update_task_valid_mut(kw) == Keys(kw, TaskFields) # {}

update_task_valid(kw) ==
    /\ ~(Has(kw.status) /\ Val(kw.status) \notin VALID_STATUSES)
    /\ Keys(kw, TaskFields) # {}

\* faulty variant: the caller's updated_at is kept when the mapping names it
update_task_set_mut(row, kw) ==
    [board_id |-> IF Has(kw.board_id) THEN Val(kw.board_id) ELSE row.board_id,
     user_id |-> row.user_id,
     title |-> IF Has(kw.title) THEN Val(kw.title) ELSE row.title,
     description |-> row.description,
     status |-> IF Has(kw.status) THEN Val(kw.status) ELSE row.status,
     priority |-> row.priority,
     due_date |-> row.due_date,
     created_at |-> row.created_at,
     updated_at |-> IF Has(kw.updated_at) THEN Val(kw.updated_at) ELSE now]

\* UPDATE tasks SET <field> = ? ..., updated_at = CURRENT_TIMESTAMP (the last
\* assignment to updated_at, the one SQLite keeps)
update_task_set(row, kw) ==
    [board_id |-> IF Has(kw.board_id) THEN Val(kw.board_id) ELSE row.board_id,
     user_id |-> row.user_id,
     title |-> IF Has(kw.title) THEN Val(kw.title) ELSE row.title,
     description |-> row.description,
     status |-> IF Has(kw.status) THEN Val(kw.status) ELSE row.status,
     priority |-> row.priority,
     due_date |-> row.due_date,
     created_at |-> row.created_at,
     updated_at |-> now]

update_task_has_permission(task_id, user_id) ==
    LET task_owner_id == tasks[task_id].user_id
        board_owner_id == boards[tasks[task_id].board_id].owner_id
        board_type == boards[tasks[task_id].board_id].board_type
        is_task_owner == user_id = task_owner_id
        is_board_owner == user_id = board_owner_id
        is_admin_on_public == board_type = "public" /\ is_admin(user_id)
    IN  is_task_owner \/ is_board_owner \/ is_admin_on_public

\* the UPDATE raises sqlite3.IntegrityError (caught: return False) when it assigns
\* a board_id that names no board row and the connection enforces foreign keys
update_task_fk_error(kw) ==
    foreign_keys /\ Has(kw.board_id) /\ Val(kw.board_id) \notin DOMAIN boards

update_task_call(task_id, user_id, kw) ==
    IF ~update_task_valid(kw) THEN [ret |-> FALSE, tasks |-> tasks]
    ELSE IF ~task_join_found(task_id) THEN [ret |-> FALSE, tasks |-> tasks]
    ELSE IF ~update_task_has_permission(task_id, user_id) THEN [ret |-> FALSE, tasks |-> tasks]
    ELSE IF update_task_fk_error(kw) THEN [ret |-> FALSE, tasks |-> tasks]
    ELSE [ret |-> TRUE, tasks |-> [tasks EXCEPT ![task_id] = update_task_set(@, kw)]]

update_task(task_id, user_id, kw) ==
    LET r == update_task_call(task_id, user_id, kw)
    IN  /\ tasks' = r.tasks
        /\ UNCHANGED <<boards, admin_roles, board_seq, task_seq, aux>>

(* ------------------------------ delete_task ---------------------------- *)
delete_task_has_permission(task_id, user_id) ==
    LET task_owner_id == tasks[task_id].user_id
        board_owner_id == boards[tasks[task_id].board_id].owner_id
        board_type == boards[tasks[task_id].board_id].board_type
        is_task_owner == user_id = task_owner_id
        is_board_owner == user_id = board_owner_id
        is_admin_on_public == board_type = "public" /\ is_admin(user_id)
    IN  is_task_owner \/ is_board_owner \/ is_admin_on_public

delete_task_call(task_id, user_id) ==
    IF ~task_join_found(task_id) THEN [ret |-> FALSE, tasks |-> tasks]
    ELSE IF ~delete_task_has_permission(task_id, user_id) THEN [ret |-> FALSE, tasks |-> tasks]
    ELSE [ret |-> TRUE, tasks |-> [i \in DOMAIN tasks \ {task_id} |-> tasks[i]]]

delete_task(task_id, user_id) ==
    LET r == delete_task_call(task_id, user_id)
    IN  /\ tasks' = r.tasks
        /\ UNCHANGED <<boards, admin_roles, board_seq, task_seq, aux>>

(* ------------------------------- reads --------------------------------- *)
\* rows are returned with their id; list_tasks_by_board below gives the rows
\* of a listing as a set, list_tasks_by_board_sorted gives them in their order
board_row(i) ==
    [id |-> i, name |-> boards[i].name, description |-> boards[i].description,
     board_type |-> boards[i].board_type, owner_id |-> boards[i].owner_id,
     updated_at |-> boards[i].updated_at]

task_row(i) ==
    [id |-> i, board_id |-> tasks[i].board_id, user_id |-> tasks[i].user_id,
     title |-> tasks[i].title, description |-> tasks[i].description,
     status |-> tasks[i].status, priority |-> tasks[i].priority,
     due_date |-> tasks[i].due_date, created_at |-> tasks[i].created_at,
     updated_at |-> tasks[i].updated_at]

\* WHERE owner_id = ? OR board_type = 'public'
list_boards_for_user(user_id) ==
    {board_row(i) : i \in {b \in DOMAIN boards :
        boards[b].owner_id = user_id \/ boards[b].board_type = "public"}}

get_board_details_has_access(owner_id, board_type, user_id) ==
    (owner_id = user_id) \/ (board_type = "public")

\* the board dict, or None: <<row>> or <<>>
get_board_details(board_id, user_id) ==
    IF board_id \notin DOMAIN boards THEN <<>>
    ELSE IF ~get_board_details_has_access(boards[board_id].owner_id, boards[board_id].board_type, user_id)
    THEN <<>>
    ELSE <<board_row(board_id)>>

\* faulty variant: admins may read the tasks of any board
list_tasks_has_access_mut(owner_id, board_type, user_id) ==
    (owner_id = user_id) \/ (board_type = "public") \/ is_admin(user_id)

list_tasks_has_access(owner_id, board_type, user_id) ==
    (owner_id = user_id) \/ (board_type = "public")

\* no filter is the empty string (falsy, as None is)
NoFilter == ""

list_tasks_by_board(board_id, user_id, status_filter) ==
    LET filter == IF status_filter # NoFilter /\ status_filter \notin VALID_STATUSES
                  THEN NoFilter ELSE status_filter
    IN  IF board_id \notin DOMAIN boards THEN {}
        ELSE IF ~list_tasks_has_access(boards[board_id].owner_id,
                                       boards[board_id].board_type, user_id)
        THEN {}
        ELSE {task_row(i) : i \in {t \in DOMAIN tasks :
                /\ tasks[t].board_id = board_id
                /\ (filter # NoFilter => tasks[t].status = filter)}}

\* [] for a requester who is not an admin, every board row otherwise
list_all_boards(admin_id) ==
    IF ~is_admin(admin_id) THEN {}
    ELSE {board_row(i) : i \in DOMAIN boards}

\* None (<<>>) for a requester who is not an admin; otherwise one record per
\* identity that owns a board or created a task
get_user_stats(admin_id) ==
    IF ~is_admin(admin_id) THEN <<>>
    ELSE LET all_users == {boards[b].owner_id : b \in DOMAIN boards}
                          \cup {tasks[t].user_id : t \in DOMAIN tasks}
             nboards(u, ty) == Cardinality({b \in DOMAIN boards :
                                  boards[b].owner_id = u /\ boards[b].board_type = ty})
             ntasks(u, S) == Cardinality({t \in DOMAIN tasks :
                                  tasks[t].user_id = u /\ tasks[t].status \in S})
         IN  <<[u \in all_users |->
                 [user_id |-> u,
                  personal_boards |-> nboards(u, "personal"),
                  public_boards |-> nboards(u, "public"),
                  total_tasks |-> Cardinality({t \in DOMAIN tasks : tasks[t].user_id = u}),
                  task_status |-> [s \in VALID_STATUSES |-> ntasks(u, {s})]]]>>

get_task_counts_has_access(owner_id, board_type, user_id) ==
    (owner_id = user_id) \/ (board_type = "public")

\* faulty variant: the SELECT lacks WHERE board_id = ?
task_counts_mut(board_id) ==
    [s \in VALID_STATUSES \cup {tasks[t].status : t \in DOMAIN tasks} |->
        Cardinality({t \in DOMAIN tasks : tasks[t].status = s})]

\* SELECT status, COUNT(*) FROM tasks WHERE board_id = ? GROUP BY status,
\* written over a dict that holds 0 for every valid status
task_counts(board_id) ==
    [s \in VALID_STATUSES \cup {tasks[t].status : t \in {x \in DOMAIN tasks :
                                                       tasks[x].board_id = board_id}} |->
        Cardinality({t \in DOMAIN tasks :
                        tasks[t].board_id = board_id /\ tasks[t].status = s})]

zero_counts == [s \in VALID_STATUSES |-> 0]

\* faulty variant: an empty dict for a board that does not exist
get_task_counts_by_board_mut(board_id, user_id) ==
    IF board_id \notin DOMAIN boards THEN <<>>
    ELSE IF ~get_task_counts_has_access(boards[board_id].owner_id,
                                        boards[board_id].board_type, user_id)
    THEN zero_counts
    ELSE task_counts(board_id)

get_task_counts_by_board(board_id, user_id) ==
    IF board_id \notin DOMAIN boards THEN zero_counts
    ELSE IF ~get_task_counts_has_access(boards[board_id].owner_id,
                                        boards[board_id].board_type, user_id)
    THEN zero_counts
    ELSE task_counts(board_id)

(* ------------------------- initialize_database ------------------------- *)
Tables == {"boards", "tasks", "admin_roles"}
Indices == {"idx_tasks_user_id", "idx_tasks_board_id", "idx_boards_owner_id",
            "idx_boards_type"}

\* faulty variant: DROP TABLE IF EXISTS before each CREATE TABLE
initialize_database_call_mut ==
    [ret |-> TRUE, schema |-> Tables \cup Indices,
     boards |-> <<>>, tasks |-> <<>>, admin_roles |-> <<>>,
     board_seq |-> 0, task_seq |-> 0]

\* CREATE TABLE IF NOT EXISTS / CREATE INDEX IF NOT EXISTS: an object that
\* exists is left as it is, with its rows; one that is missing is created empty
initialize_database_call ==
    [ret |-> TRUE, schema |-> schema \cup Tables \cup Indices,
     boards |-> IF "boards" \in schema THEN boards ELSE <<>>,
     tasks |-> IF "tasks" \in schema THEN tasks ELSE <<>>,
     admin_roles |-> IF "admin_roles" \in schema THEN admin_roles ELSE <<>>,
     board_seq |-> IF "boards" \in schema THEN board_seq ELSE 0,
     task_seq |-> IF "tasks" \in schema THEN task_seq ELSE 0]

initialize_database ==
    LET r == initialize_database_call
    IN  /\ schema' = r.schema
        /\ boards' = r.boards
        /\ tasks' = r.tasks
        /\ admin_roles' = r.admin_roles
        /\ board_seq' = r.board_seq
        /\ task_seq' = r.task_seq
        /\ UNCHANGED <<now, frames, open_connections>>

(* -------------------------- migrate_legacy_data ------------------------ *)
\* f"Personal Board" and "Migrated from legacy data"
PersonalBoard == <<"P", "e", "r", "s", "o", "n", "a", "l", " ", "B", "o", "a", "r", "d">>
MigratedFromLegacyData ==
    Text(<<"M", "i", "g", "r", "a", "t", "e", "d", " ", "f", "r", "o", "m", " ",
           "l", "e", "g", "a", "c", "y", " ", "d", "a", "t", "a">>)

\* SELECT COUNT(*) / SELECT DISTINCT user_id FROM tasks WHERE board_id IS NULL
legacy_tasks == {t \in DOMAIN tasks : tasks[t].board_id = None}
legacy_users == {tasks[t].user_id : t \in legacy_tasks}

\* the orders in which the rows of SELECT DISTINCT may come back
Orders(S) == {o \in [1..Cardinality(S) -> S] : \A i, j \in DOMAIN o : o[i] = o[j] => i = j}

\* position of user_id in the list users
index_of(users, user_id) == CHOOSE i \in DOMAIN users : users[i] = user_id

\* faulty variant: the UPDATE lacks `AND board_id IS NULL`
migrate_legacy_data_call_mut(users) ==
    IF legacy_tasks = {}
    THEN [ret |-> TRUE, boards |-> boards, tasks |-> tasks, board_seq |-> board_seq]
    ELSE [ret |-> TRUE,
          boards |-> [i \in DOMAIN boards \cup (board_seq + 1)..(board_seq + Len(users)) |->
                        IF i \in DOMAIN boards THEN boards[i]
                        ELSE [name |-> PersonalBoard, description |-> MigratedFromLegacyData,
                              board_type |-> "personal", owner_id |-> users[i - board_seq],
                              updated_at |-> now]],
          tasks |-> [t \in DOMAIN tasks |->
                       IF tasks[t].user_id \in legacy_users
                       THEN [tasks[t] EXCEPT
                                !.board_id = board_seq + index_of(users, tasks[t].user_id)]
                       ELSE tasks[t]],
          board_seq |-> board_seq + Len(users)]

\* users: the list the SELECT DISTINCT returned. One INSERT INTO boards per
\* user, each followed by the UPDATE of that user's tasks that have no board
migrate_legacy_data_call(users) ==
    IF legacy_tasks = {}
    THEN [ret |-> TRUE, boards |-> boards, tasks |-> tasks, board_seq |-> board_seq]
    ELSE [ret |-> TRUE,
          boards |-> [i \in DOMAIN boards \cup (board_seq + 1)..(board_seq + Len(users)) |->
                        IF i \in DOMAIN boards THEN boards[i]
                        ELSE [name |-> PersonalBoard, description |-> MigratedFromLegacyData,
                              board_type |-> "personal", owner_id |-> users[i - board_seq],
                              updated_at |-> now]],
          tasks |-> [t \in DOMAIN tasks |->
                       IF t \in legacy_tasks
                       THEN [tasks[t] EXCEPT
                                !.board_id = board_seq + index_of(users, tasks[t].user_id)]
                       ELSE tasks[t]],
          board_seq |-> board_seq + Len(users)]

migrate_legacy_data ==
    \E users \in Orders(legacy_users) :
        LET r == migrate_legacy_data_call(users)
        IN  /\ boards' = r.boards
            /\ tasks' = r.tasks
            /\ board_seq' = r.board_seq
            /\ UNCHANGED <<admin_roles, task_seq, aux>>

(* ------------------- list_tasks_by_board: ORDER BY --------------------- *)
\* the characters of the values of the model, in the order of their bytes
\* (the BINARY collation compares text with memcmp)
Alphabet ==
    <<" ", "-", "0", "1", "2", "3", "4", "5", "6", "7", "8", "9", "A", "M", "U",
      "a", "d", "e", "g", "i", "n", "o", "t">>
code(c) == CHOOSE i \in 1..Len(Alphabet) : Alphabet[i] = c

\* the characters of a status or of an identity
chars(x) ==
    CASE x = "todo" -> <<"t", "o", "d", "o">>
      [] x = "doing" -> <<"d", "o", "i", "n", "g">>
      [] x = "done" -> <<"d", "o", "n", "e">>
      [] OTHER -> <<x>>

RECURSIVE text_less(_, _)
text_less(s, t) ==
    IF t = <<>> THEN FALSE
    ELSE IF s = <<>> THEN TRUE
    ELSE IF Head(s) = Head(t) THEN text_less(Tail(s), Tail(t))
    ELSE code(Head(s)) < code(Head(t))

\* the integer a digit string denotes
RECURSIVE int_value(_)
int_value(s) ==
    IF s = <<>> THEN 0
    ELSE 10 * int_value(SubSeq(s, 1, Len(s) - 1)) + (code(s[Len(s)]) - code("0"))

\* a stored value as <<storage class, number, text>>: NULL sorts before every
\* number, and every number before every text
sort_key(v) ==
    IF v[1] = "null" THEN <<0, 0, <<>>>>
    ELSE IF v[1] = "integer" THEN <<1, int_value(v[2]), <<>>>>
    ELSE <<2, 0, v[2]>>

key_less(k, l) ==
    \/ k[1] < l[1]
    \/ k[1] = l[1] /\ k[2] < l[2]
    \/ k[1] = l[1] /\ k[2] = l[2] /\ text_less(k[3], l[3])

\* the columns of the tasks table and the value a row holds in each
TaskColumns ==
    {"id", "board_id", "user_id", "title", "description", "status", "priority",
     "due_date", "created_at", "updated_at"}
column(t, field) ==
    CASE field = "id" -> <<1, t, <<>>>>
      [] field = "board_id" -> <<1, tasks[t].board_id, <<>>>>
      [] field = "user_id" -> <<2, 0, chars(tasks[t].user_id)>>
      [] field = "title" -> <<2, 0, tasks[t].title>>
      [] field = "description" -> sort_key(tasks[t].description)
      [] field = "status" -> <<2, 0, chars(tasks[t].status)>>
      [] field = "priority" -> sort_key(tasks[t].priority)
      [] field = "due_date" -> sort_key(tasks[t].due_date)
      [] field = "created_at" -> <<1, tasks[t].created_at, <<>>>>
      [] OTHER -> <<1, tasks[t].updated_at, <<>>>>

\* ORDER BY field order over the rows `ids`: rows of equal key come in the
\* order of their rowid, as SQLite returns them for this query
order_by(ids, field, order) ==
    LET before(a, b) ==
            IF column(a, field) = column(b, field) THEN a < b
            ELSE IF order = "DESC" THEN key_less(column(b, field), column(a, field))
            ELSE key_less(column(a, field), column(b, field))
    IN  CHOOSE q \in Orders(ids) : \A i, j \in 1..Len(q) : i < j => before(q[i], q[j])

valid_sort_fields ==
    {"id", "title", "status", "created_at", "updated_at", "priority", "due_date", "user_id"}

\* faulty variant: sort_by goes into the query as it was passed
sort_field_mut(sort_by) == sort_by

\* if sort_by not in valid_sort_fields: sort_by = 'created_at'
sort_field(sort_by) == IF sort_by \notin valid_sort_fields THEN "created_at" ELSE sort_by

\* if order not in ['ASC', 'DESC']: order = 'ASC'
sort_order(order) == IF order \notin {"ASC", "DESC"} THEN "ASC" ELSE order

\* if status_filter and status_filter not in VALID_STATUSES: status_filter = None
filter_of(status_filter) ==
    IF status_filter # NoFilter /\ status_filter \notin VALID_STATUSES
    THEN NoFilter ELSE status_filter

\* the whole method: the list of task rows, [] as <<>>. An ORDER BY term that
\* names no column makes the SELECT raise sqlite3.OperationalError, which the
\* except clause turns into []
list_tasks_by_board_sorted(board_id, user_id, status_filter, sort_by, order) ==
    LET filter == filter_of(status_filter)
        field == sort_field(sort_by)
        ids == {t \in DOMAIN tasks :
                   /\ tasks[t].board_id = board_id
                   /\ (filter # NoFilter => tasks[t].status = filter)}
    IN  IF board_id \notin DOMAIN boards THEN <<>>
        ELSE IF ~list_tasks_has_access(boards[board_id].owner_id,
                                       boards[board_id].board_type, user_id)
        THEN <<>>
        ELSE IF field \notin TaskColumns THEN <<>>
        ELSE LET q == order_by(ids, field, sort_order(order))
             IN  [i \in 1..Len(q) |-> task_row(q[i])]

(* ---------------- method calls of interleaved sessions ------------------ *)
\* Two chat sessions call methods of one KanbanDatabase. A call is run in
\* steps: the checks before `try`, get_connection, the SELECT that looks the
\* target up and decides the permission, the write with its commit, and the
\* way out through `except`, `finally` and `return`. Between two steps of a
\* session the other session may run, and get_connection or a statement may
\* raise sqlite3.Error.  The is_admin call inside a permission check is run
\* within the lookup step.
Sessions == {"s1", "s2"}
NoKwargs == [title |-> {}, status |-> {}, board_id |-> {}, updated_at |-> {}]

\* a session between two calls: how its last call ended ("" before the first
\* call) and whether sqlite3.Error was raised in it
Idle(outcome, faulted) ==
    [op |-> "idle", pc |-> "idle", conn |-> "unbound", board_id |-> 0, task_id |-> 0,
     user_id |-> "", title |-> <<>>, status |-> "", kw |-> NoKwargs,
     outcome |-> outcome, faulted |-> faulted]

\* what the `except sqlite3.Error` clause of a method returns
failure_value(op) ==
    IF op \in {"add_task", "backup_database"} THEN "None" ELSE "False"

\* the method ends in `finally: if conn: conn.close()`
has_finally(op) == op \notin {"update_task", "backup_database"}

\* the checks a method makes before `try`
call_valid(op, title, status, kw) ==
    IF op = "add_task" THEN add_task_valid(title, status)
    ELSE IF op = "update_task" THEN update_task_valid(kw)
    ELSE IF op = "update_task_status" THEN update_task_status_valid(status)
    ELSE IF op = "update_board" THEN update_board_valid(kw)
    ELSE TRUE

\* a session enters a method
call(s, op, board_id, task_id, user_id, title, status, kw) ==
    /\ frames[s].op = "idle"
    /\ frames' = [frames EXCEPT ![s] =
                     IF ~call_valid(op, title, status, kw)
                     THEN Idle(failure_value(op), FALSE)
                     ELSE [op |-> op, pc |-> "connect", conn |-> "unbound",
                           board_id |-> board_id, task_id |-> task_id, user_id |-> user_id,
                           title |-> title, status |-> status, kw |-> kw,
                           outcome |-> "", faulted |-> FALSE]]
    /\ UNCHANGED <<boards, tasks, admin_roles, board_seq, task_seq, now, schema,
                   open_connections>>

\* conn = self.get_connection()
get_connection(s) ==
    /\ frames[s].pc = "connect"
    /\ open_connections < MaxConnections
    /\ open_connections' = open_connections + 1
    /\ frames' = [frames EXCEPT ![s].conn = "open",
                                ![s].pc = IF frames[s].op \in {"is_admin", "initialize_database",
                                                               "backup_database"}
                                          THEN "body" ELSE "lookup"]
    /\ UNCHANGED <<boards, tasks, admin_roles, board_seq, task_seq, now, schema>>

\* sqlite3.connect raises sqlite3.Error: `conn` is never assigned. The except
\* clause returns the failure value; where a finally clause follows, its
\* `if conn:` reads the unassigned local and UnboundLocalError leaves the method
get_connection_raises(s) ==
    /\ frames[s].pc = "connect"
    /\ frames' = [frames EXCEPT ![s] =
                     Idle(IF has_finally(frames[s].op) THEN "raised"
                          ELSE failure_value(frames[s].op), TRUE)]
    /\ UNCHANGED <<boards, tasks, admin_roles, board_seq, task_seq, now, schema,
                   open_connections>>

\* the way out of a method whose connection is open: conn.close() in the
\* finally clause; update_task has no such clause and never closes, and
\* backup_database closes only on the path that returns the backup path
leave(s, outcome, faulted) ==
    LET closes == IF frames[s].op = "update_task" THEN FALSE
                  ELSE IF frames[s].op = "backup_database" THEN ~faulted
                  ELSE TRUE
    IN  /\ frames' = [frames EXCEPT ![s] = Idle(outcome, faulted)]
        /\ open_connections' = IF closes THEN open_connections - 1 ELSE open_connections

\* the row the SELECT of the method finds, and the permission check on it
lookup_passes(f) ==
    IF f.op = "add_task"
    THEN f.board_id \in DOMAIN boards
         /\ add_task_has_permission(boards[f.board_id].owner_id,
                                    boards[f.board_id].board_type, f.user_id)
    ELSE IF f.op = "delete_board"
    THEN f.board_id \in DOMAIN boards
         /\ delete_board_has_permission(boards[f.board_id].owner_id,
                                        boards[f.board_id].board_type, f.user_id)
    ELSE IF f.op = "update_board"
    THEN f.board_id \in DOMAIN boards
         /\ update_board_has_permission(boards[f.board_id].owner_id,
                                        boards[f.board_id].board_type, f.user_id)
    ELSE IF f.op = "update_task"
    THEN task_join_found(f.task_id) /\ update_task_has_permission(f.task_id, f.user_id)
    ELSE task_join_found(f.task_id) /\ update_task_status_has_permission(f.task_id, f.user_id)

lookup(s) ==
    /\ frames[s].pc = "lookup"
    /\ IF lookup_passes(frames[s])
       THEN /\ frames' = [frames EXCEPT ![s].pc = "write"]
            /\ UNCHANGED open_connections
       ELSE leave(s, failure_value(frames[s].op), FALSE)
    /\ UNCHANGED <<boards, tasks, admin_roles, board_seq, task_seq, now, schema>>

\* the INSERT, UPDATE or DELETE of the method and its commit, on the tables
\* as they are now; the statement names the row by id and succeeds when it
\* matches no row
write_rows(f) ==
    IF f.op = "add_task"
    THEN LET r == add_task_insert(f.board_id, f.user_id, f.title, EmptyText, f.status,
                                  Zero, SqlNull)
         IN  [ret |-> IF r.ret = None THEN "None" ELSE "id",
              boards |-> boards, tasks |-> r.tasks, task_seq |-> r.task_seq]
    ELSE IF f.op = "delete_board"
    THEN [ret |-> "True", boards |-> delete_board_rows(f.board_id).boards,
          tasks |-> delete_board_rows(f.board_id).tasks, task_seq |-> task_seq]
    ELSE IF f.op = "update_board"
    THEN [ret |-> "True",
          boards |-> [b \in DOMAIN boards |->
                        IF b = f.board_id THEN update_board_set(boards[b], f.kw)
                        ELSE boards[b]],
          tasks |-> tasks, task_seq |-> task_seq]
    ELSE IF f.op = "update_task"
    THEN IF update_task_fk_error(f.kw)
         THEN [ret |-> "False", boards |-> boards, tasks |-> tasks, task_seq |-> task_seq]
         ELSE [ret |-> "True", boards |-> boards,
               tasks |-> [t \in DOMAIN tasks |->
                            IF t = f.task_id THEN update_task_set(tasks[t], f.kw)
                            ELSE tasks[t]],
               task_seq |-> task_seq]
    ELSE [ret |-> "True", boards |-> boards,
          tasks |-> [t \in DOMAIN tasks |->
                       IF t = f.task_id
                       THEN [tasks[t] EXCEPT !.status = f.status, !.updated_at = now]
                       ELSE tasks[t]],
          task_seq |-> task_seq]

write(s) ==
    LET r == write_rows(frames[s])
    IN  /\ frames[s].pc = "write"
        /\ boards' = r.boards
        /\ tasks' = r.tasks
        /\ task_seq' = r.task_seq
        /\ leave(s, r.ret, FALSE)
        /\ UNCHANGED <<admin_roles, board_seq, now, schema>>

\* the statements of is_admin (the SELECT), of initialize_database (the
\* CREATE statements and the commit) and of backup_database (conn.backup)
body(s) ==
    /\ frames[s].pc = "body"
    /\ IF frames[s].op = "initialize_database"
       THEN LET r == initialize_database_call
            IN  /\ schema' = r.schema
                /\ boards' = r.boards
                /\ tasks' = r.tasks
                /\ admin_roles' = r.admin_roles
                /\ board_seq' = r.board_seq
                /\ task_seq' = r.task_seq
                /\ leave(s, IF r.ret THEN "True" ELSE "False", FALSE)
       ELSE /\ UNCHANGED <<boards, tasks, admin_roles, board_seq, task_seq, schema>>
            /\ IF frames[s].op = "is_admin"
               THEN leave(s, IF is_admin(frames[s].user_id) THEN "True" ELSE "False", FALSE)
               ELSE leave(s, "path", FALSE)
    /\ UNCHANGED now

\* a statement (or, in backup_database, sqlite3.connect(backup_path) or
\* conn.backup) raises sqlite3.Error: nothing is committed, the except clause
\* returns the failure value
statement_raises(s) ==
    /\ frames[s].pc \in {"lookup", "write", "body"}
    /\ leave(s, failure_value(frames[s].op), TRUE)
    /\ UNCHANGED <<boards, tasks, admin_roles, board_seq, task_seq, now, schema>>

\* the garbage collector finalises a connection object no frame refers to,
\* which closes it
collect ==
    /\ open_connections > Cardinality({s \in Sessions : frames[s].conn = "open"})
    /\ open_connections' = open_connections - 1
    /\ UNCHANGED <<boards, tasks, admin_roles, board_seq, task_seq, now, schema, frames>>

(* ------------------------------ behaviour ------------------------------ *)
\* KanbanDatabase(): initialize_database on a new file leaves three empty tables
Init ==
    /\ boards = <<>>
    /\ tasks = <<>>
    /\ admin_roles = <<>>
    /\ board_seq = 0
    /\ task_seq = 0
    /\ now = 0
    /\ schema = Tables \cup Indices
    /\ frames = [s \in Sessions |-> Idle("", FALSE)]
    /\ open_connections = 0

Next ==
    \/ \E n \in Names, u \in Users, d \in Descriptions, ty \in BoardTypeInputs :
          board_seq < MaxBoards /\ create_board(n, u, d, ty)
    \/ \E b \in BoardIdInputs, u \in Users, kw \in BoardKwargs : update_board(b, u, kw)
    \/ \E b \in BoardIdInputs, u \in Users : delete_board(b, u)
    \/ \E u \in AdminInputs, f \in BOOLEAN : set_admin(u, f)
    \/ \E u \in AdminInputs : remove_admin(u)
    \/ \E b \in BoardIdInputs, u \in Users, ti \in Names, d \in Descriptions,
          st \in StatusInputs, p \in Priorities, dd \in DueDates :
          task_seq < MaxTasks /\ add_task(b, u, ti, d, st, p, dd)
    \/ \E t \in TaskIdInputs, st \in StatusInputs, u \in Users : update_task_status(t, st, u)
    \/ \E t \in TaskIdInputs, u \in Users, kw \in TaskKwargs : update_task(t, u, kw)
    \/ \E t \in TaskIdInputs, u \in Users : delete_task(t, u)
    \/ initialize_database

Spec == Init /\ [][Next]_vars

(* ------------------- a store written before boards existed ------------- *)
\* a tasks table whose board_id column admits NULL, with up to MaxLegacyTasks
\* rows, some of them on a board that already exists
LegacyUsers == {"A", "U", "M"}
LegacyTaskRow(user_id, board_id) ==
    [board_id |-> board_id, user_id |-> user_id, title |-> <<"a">>,
     description |-> EmptyText, status |-> "todo", priority |-> Zero,
     due_date |-> SqlNull, created_at |-> 0, updated_at |-> 0]

LegacyInit ==
    /\ now = 0
    /\ schema = Tables \cup Indices
    /\ frames = [s \in Sessions |-> Idle("", FALSE)]
    /\ open_connections = 0
    /\ admin_roles = <<>>
    /\ \E nb \in 0..1 :
          /\ board_seq = nb
          /\ boards = [i \in 1..nb |->
                          [name |-> <<"a">>, description |-> EmptyText,
                           board_type |-> "personal", owner_id |-> "A", updated_at |-> 0]]
          /\ \E nt \in 0..MaxLegacyTasks :
                /\ task_seq = nt
                /\ \E us \in [1..nt -> LegacyUsers], bs \in [1..nt -> {None} \cup 1..nb] :
                      tasks = [t \in 1..nt |-> LegacyTaskRow(us[t], bs[t])]

LegacyNext ==
    \/ migrate_legacy_data
    \/ \E t \in 1..MaxLegacyTasks, u \in LegacyUsers : delete_task(t, u)

LegacySpec == LegacyInit /\ [][LegacyNext]_vars

(* -------------------------- interleaved sessions ----------------------- *)
SessionUsers == {"A", "U"}
SessionKwargs ==
    {[NoKwargs EXCEPT !.status = {"doing"}], [NoKwargs EXCEPT !.board_id = {MaxBoards}]}

SessionNext ==
    \/ board_seq < MaxBoards - 1 /\ create_board(<<"a">>, "A", EmptyText, "personal")
    \/ \E s \in Sessions :
          \/ \E u \in SessionUsers, st \in {"todo", "blocked"} :
                task_seq < MaxTasks /\ call(s, "add_task", 1, 0, u, <<"a">>, st, NoKwargs)
          \/ \E u \in SessionUsers : call(s, "delete_board", 1, 0, u, <<>>, "", NoKwargs)
          \/ \E kw \in SessionKwargs : call(s, "update_task", 0, 1, "A", <<>>, "", kw)
          \/ \E u \in SessionUsers : call(s, "update_task_status", 0, 1, u, <<>>, "done", NoKwargs)
          \/ \E op \in {"is_admin", "initialize_database", "backup_database"} :
                call(s, op, 0, 0, "A", <<>>, "", NoKwargs)
          \/ get_connection(s)
          \/ get_connection_raises(s)
          \/ lookup(s)
          \/ write(s)
          \/ body(s)
          \/ statement_raises(s)
    \/ collect

SessionSpec == Init /\ [][SessionNext]_vars

(* ----------- a session's call interleaved with committed calls --------- *)
\* An admin who is not the owner works on a public board and its task, step by
\* step, while calls of the owner's session and set_admin / remove_admin
\* commit between the steps
Rename == [name |-> {<<"a", "a">>}, board_type |-> {}, owner_id |-> {}, updated_at |-> {}]
Retype(ty) == [name |-> {}, board_type |-> {ty}, owner_id |-> {}, updated_at |-> {}]

AuthNext ==
    \/ board_seq < MaxBoards - 1 /\ create_board(<<"a">>, "A", EmptyText, "public")
    \/ task_seq < MaxTasks /\ add_task(1, "A", <<"a">>, EmptyText, "todo", Zero, SqlNull)
    \/ set_admin("M", TRUE)
    \/ remove_admin("M")
    \/ \E ty \in BOARD_TYPES : update_board(1, "A", Retype(ty))
    \/ \E s \in Sessions :
          \/ \E st \in {"doing", "done"} :
                call(s, "update_task_status", 0, 1, "M", <<>>, st, NoKwargs)
          \/ call(s, "update_board", 1, 0, "M", <<>>, "", Rename)
          \/ call(s, "delete_board", 1, 0, "M", <<>>, "", NoKwargs)
          \/ get_connection(s)
          \/ lookup(s)
          \/ write(s)

AuthSpec == Init /\ [][AuthNext]_vars

(* ------------------ admin flags set for every identity ----------------- *)
AdminNext ==
    \/ \E u \in Users, f \in BOOLEAN : set_admin(u, f)
    \/ \E u \in Users : remove_admin(u)
    \/ \E ty \in BOARD_TYPES :
          board_seq < MaxBoards /\ create_board(<<"a">>, "A", EmptyText, ty)
    \/ \E b \in BoardIdInputs :
          task_seq < MaxTasks /\ add_task(b, "A", <<"a">>, EmptyText, "todo", Zero, SqlNull)
    \/ \E b \in BoardIdInputs, u \in Users : delete_board(b, u)
    \/ \E t \in TaskIdInputs, u \in Users : update_task_status(t, "done", u)

AdminSpec == Init /\ [][AdminNext]_vars

(* ------------------ the store clock advancing between calls ------------ *)
\* CURRENT_TIMESTAMP moves on
Tick ==
    /\ now < MaxClock
    /\ now' = now + 1
    /\ UNCHANGED <<boards, tasks, admin_roles, board_seq, task_seq, schema, frames,
                   open_connections>>

ClockUsers == {"A", "U"}
\* mappings of one or two keys, updated_at among them
ClockBoardKwargs ==
    [name : {{}}, board_type : Opt(BOARD_TYPES), owner_id : {{}}, updated_at : Opt(TimeInputs)]
ClockTaskKwargs ==
    [title : {{}}, status : Opt({"doing"}), board_id : {{}}, updated_at : Opt(TimeInputs)]

ClockNext ==
    \/ Tick
    \/ \E ty \in BOARD_TYPES :
          board_seq < MaxBoards /\ create_board(<<"a">>, "A", EmptyText, ty)
    \/ \E b \in BoardIdInputs :
          task_seq < MaxTasks /\ add_task(b, "A", <<"a">>, EmptyText, "todo", Zero, SqlNull)
    \/ \E b \in BoardIdInputs, kw \in ClockBoardKwargs : update_board(b, "A", kw)
    \/ \E t \in TaskIdInputs, kw \in ClockTaskKwargs : update_task(t, "A", kw)
    \/ \E t \in TaskIdInputs, u \in ClockUsers : update_task_status(t, "doing", u)

ClockSpec == Init /\ [][ClockNext]_vars

(* --------------------- adding to a board and listing it ---------------- *)
IsoDate == <<"2", "0", "2", "6", "-", "0", "1", "-", "0", "1">>
Year == <<"2", "0", "2", "6">>
ListedTitles == {<<"a">>}
ListedDescriptions == {EmptyText, Text(<<"d">>)}
ListedStatuses == VALID_STATUSES
ListedPriorities == {Zero, Integer(<<"2">>)}
\* a due date as None, as ISO text, as a datetime object and as the text of a year
ListedDueDates == {SqlNull, Text(IsoDate), Datetime(IsoDate), Text(Year)}

ListNext ==
    \/ \E ty \in BOARD_TYPES :
          board_seq < MaxBoards /\ create_board(<<"a">>, "A", EmptyText, ty)
    \/ \E b \in BoardIdInputs, ti \in ListedTitles, d \in ListedDescriptions,
          st \in ListedStatuses, p \in ListedPriorities, dd \in ListedDueDates :
          task_seq < MaxListed /\ add_task(b, "A", ti, d, st, p, dd)
    \/ \E t \in 1..MaxListed : delete_task(t, "A")

ListSpec == Init /\ [][ListNext]_vars

(* ======================================================================= *)
(*                              Properties                                 *)
(* ======================================================================= *)
ValidTitle == <<"a">>
BlankNames == {n \in Names : \A i \in 1..Len(n) : n[i] = " "}
InvalidStatuses == StatusInputs \ {"todo", "doing", "done"}

\* the rows of a board's tasks, as a listing returns them
TasksOfBoard(b) == {task_row(t) : t \in {x \in DOMAIN tasks : tasks[x].board_id = b}}

(* ----------------------------------------------------------------------- *)
\* C1: cascade invariant. A delete_board(b, u) that returns True leaves no
\* task row whose board reference is b.
C1_DeleteBoardCascades ==
    [][\A b \in BoardIdInputs, u \in Users :
          (delete_board(b, u) /\ delete_board_call(b, u).ret = TRUE)
              => (\A t \in DOMAIN tasks' : tasks'[t].board_id # b)]_vars

(* ----------------------------------------------------------------------- *)
\* C2: every stored task's status is one of todo, doing, done, and a call of
\* add_task, update_task_status or update_task(status=...) with any other
\* value returns the failure value and leaves the tasks table as it was,
\* whoever the requester is.
C2_StatusClosed ==
    /\ \A t \in DOMAIN tasks : tasks[t].status \in {"todo", "doing", "done"}
    /\ \A st \in InvalidStatuses, u \in Users :
          /\ \A b \in BoardIdInputs, ti \in Names, d \in Descriptions,
                p \in Priorities, dd \in DueDates :
                LET r == add_task_call(b, u, ti, d, st, p, dd)
                IN  r.ret = None /\ r.tasks = tasks
          /\ \A t \in TaskIdInputs :
                LET r == update_task_status_call(t, st, u)
                IN  r.ret = FALSE /\ r.tasks = tasks
          /\ \A t \in TaskIdInputs, kw \in TaskKwargs :
                (Has(kw.status) /\ Val(kw.status) = st) =>
                    LET r == update_task_call(t, u, kw)
                    IN  r.ret = FALSE /\ r.tasks = tasks

\* a task with status done exists, and its creator, who may write it,
\* asks for a status outside the set
C2_Witness ==
    \E t \in DOMAIN tasks :
        /\ tasks[t].status = "done"
        /\ task_join_found(t)
        /\ update_task_status_call(t, "blocked", tasks[t].user_id).ret = FALSE
        /\ update_task_status_call(t, "doing", tasks[t].user_id).ret = TRUE

(* ----------------------------------------------------------------------- *)
\* the read rule as the specification states it
Readable(b, u) ==
    b \in DOMAIN boards /\ (boards[b].owner_id = u \/ boards[b].board_type = "public")

\* C3: read access. list_boards_for_user(u) holds board b exactly when u owns
\* b or b is public; get_board_details and list_tasks_by_board return b's
\* data under the same condition and None / [] otherwise, admin flag or not.
C3_ReadAccess ==
    \A u \in Users, b \in BoardIdInputs :
        /\ (\E row \in list_boards_for_user(u) : row.id = b) <=> Readable(b, u)
        /\ \A row \in list_boards_for_user(u) : row = board_row(row.id)
        /\ get_board_details(b, u) = IF Readable(b, u) THEN <<board_row(b)>> ELSE <<>>
        /\ list_tasks_by_board(b, u, NoFilter) = IF Readable(b, u) THEN TasksOfBoard(b) ELSE {}

\* an admin asks for another identity's personal board that holds a task, and
\* for a public board of that identity that holds none of its own
C3_Witness ==
    \E b \in DOMAIN boards, p \in DOMAIN boards, u \in Users :
        /\ is_admin(u)
        /\ boards[b].board_type = "personal" /\ boards[b].owner_id # u
        /\ TasksOfBoard(b) # {}
        /\ get_board_details(b, u) = <<>>
        /\ list_tasks_by_board(b, u, NoFilter) = {}
        /\ boards[p].board_type = "public" /\ boards[p].owner_id # u
        /\ get_board_details(p, u) = <<board_row(p)>>
        /\ board_row(p) \in list_boards_for_user(u)

(* ----------------------------------------------------------------------- *)
\* the board write rule as the specification states it
BoardWritable(b, u) ==
    /\ b \in DOMAIN boards
    /\ \/ boards[b].owner_id = u
       \/ (boards[b].board_type = "public" /\ u \in DOMAIN admin_roles /\ admin_roles[u] = 1)

ValidBoardKwargs ==
    {kw \in BoardKwargs :
        /\ Has(kw.name) \/ Has(kw.board_type) \/ Has(kw.owner_id)
        /\ Has(kw.board_type) => Val(kw.board_type) \in {"personal", "public"}}

\* C4: board write/delete access. update_board with a valid non-empty field
\* set and delete_board return True exactly when the board exists and the
\* requester owns it or it is public and the requester is an admin; a
\* successful call writes the fields / removes the row, a failed one leaves
\* the boards table as it was.
C4_BoardWriteAccess ==
    \A b \in BoardIdInputs, u \in Users :
        /\ \A kw \in ValidBoardKwargs :
              LET r == update_board_call(b, u, kw)
              IN  /\ r.ret = TRUE <=> BoardWritable(b, u)
                  /\ r.ret = TRUE =>
                        /\ DOMAIN r.boards = DOMAIN boards
                        /\ Has(kw.name) => r.boards[b].name = Val(kw.name)
                        /\ Has(kw.board_type) => r.boards[b].board_type = Val(kw.board_type)
                        /\ Has(kw.owner_id) => r.boards[b].owner_id = Val(kw.owner_id)
                  /\ r.ret = FALSE => r.boards = boards
        /\ LET r == delete_board_call(b, u)
           IN  /\ r.ret = TRUE <=> BoardWritable(b, u)
               /\ r.ret = TRUE => r.boards = [i \in DOMAIN boards \ {b} |-> boards[i]]
               /\ r.ret = FALSE => r.boards = boards

\* an admin who owns neither board faces a personal and a public board of
\* another identity: denied on the first, allowed on the second
C4_Witness ==
    \E b \in DOMAIN boards, p \in DOMAIN boards, u \in Users :
        /\ is_admin(u)
        /\ boards[b].board_type = "personal" /\ boards[b].owner_id # u
        /\ boards[p].board_type = "public" /\ boards[p].owner_id # u
        /\ delete_board_call(b, u).ret = FALSE
        /\ delete_board_call(p, u).ret = TRUE
        /\ \A kw \in ValidBoardKwargs :
              update_board_call(b, u, kw).ret = FALSE /\ update_board_call(p, u, kw).ret = TRUE

(* ----------------------------------------------------------------------- *)
\* the task write rule as the specification states it
TaskWritable(t, u) ==
    /\ t \in DOMAIN tasks
    /\ \/ tasks[t].user_id = u
       \/ /\ tasks[t].board_id \in DOMAIN boards
          /\ \/ boards[tasks[t].board_id].owner_id = u
             \/ /\ boards[tasks[t].board_id].board_type = "public"
                /\ u \in DOMAIN admin_roles /\ admin_roles[u] = 1

ValidTaskKwargs ==
    {kw \in TaskKwargs :
        /\ Has(kw.title) \/ Has(kw.status) \/ Has(kw.board_id)
        /\ Has(kw.status) => Val(kw.status) \in {"todo", "doing", "done"}}

\* C5: task write/delete access. update_task_status, update_task and
\* delete_task on task t by u return True exactly when t exists and u is its
\* creator, or owns its board, or its board is public and u is an admin.
C5_TaskWriteAccess ==
    \A t \in TaskIdInputs, u \in Users :
        /\ \A st \in {"todo", "doing", "done"} :
              update_task_status_call(t, st, u).ret = TRUE <=> TaskWritable(t, u)
        /\ \A kw \in ValidTaskKwargs :
              update_task_call(t, u, kw).ret = TRUE <=> TaskWritable(t, u)
        /\ delete_task_call(t, u).ret = TRUE <=> TaskWritable(t, u)

(* ----------------------------------------------------------------------- *)
\* the identity holds no admin flag: no row, or a row whose is_admin is 0
NoAdminFlag(u) == u \notin DOMAIN admin_roles \/ admin_roles[u] = 0

\* C6: admin-only operations. For an identity without the admin flag (never
\* set, or set and removed again) list_all_boards returns [] and
\* get_user_stats returns None, whatever boards and tasks it owns.
C6_AdminOnly ==
    \A u \in Users :
        NoAdminFlag(u) => list_all_boards(u) = {} /\ get_user_stats(u) = <<>>

\* an identity whose flag was removed owns a board and a task, asks and gets
\* nothing, while the store holds boards an admin would be shown
C6_Witness ==
    \E u \in Users :
        /\ u \in DOMAIN admin_roles /\ admin_roles[u] = 0
        /\ \E b \in DOMAIN boards : boards[b].owner_id = u
        /\ \E t \in DOMAIN tasks : tasks[t].user_id = u
        /\ list_all_boards(u) = {}
        /\ get_user_stats(u) = <<>>

(* ----------------------------------------------------------------------- *)
\* C7: any identity with access to a board (its owner, or anyone when it is
\* public) can create a task on it: add_task with a non-empty title and a
\* valid status returns the new id and inserts the row.
C7_AddTaskWithAccess ==
    \A b \in BoardIdInputs, u \in Users, st \in {"todo", "doing", "done"} :
        Readable(b, u) =>
            LET r == add_task_call(b, u, ValidTitle, EmptyText, st, Zero, SqlNull)
            IN  /\ r.ret # None
                /\ r.ret \in DOMAIN r.tasks
                /\ r.ret \notin DOMAIN tasks
                /\ r.tasks[r.ret].board_id = b

(* ----------------------------------------------------------------------- *)
\* C8: no partial application. A create_board, add_task, update_board,
\* update_task, update_task_status, delete_board or delete_task call that
\* returns its failure value (None / False) leaves the board rows, the task
\* rows and the id sequences it could write exactly as they were.
C8_NoPartialApplication ==
    /\ \A n \in Names, u \in Users, d \in Descriptions, ty \in BoardTypeInputs :
          LET r == create_board_call(n, u, d, ty)
          IN  r.ret = None => r.boards = boards /\ r.board_seq = board_seq
    /\ \A b \in BoardIdInputs, u \in Users, kw \in BoardKwargs :
          LET r == update_board_call(b, u, kw)
          IN  r.ret = FALSE => r.boards = boards
    /\ \A b \in BoardIdInputs, u \in Users :
          LET r == delete_board_call(b, u)
          IN  r.ret = FALSE => r.boards = boards /\ r.tasks = tasks
    /\ \A b \in BoardIdInputs, u \in Users, ti \in Names, d \in Descriptions,
          st \in StatusInputs, p \in Priorities, dd \in DueDates :
          LET r == add_task_call(b, u, ti, d, st, p, dd)
          IN  r.ret = None => r.tasks = tasks /\ r.task_seq = task_seq
    /\ \A t \in TaskIdInputs, u \in Users, st \in StatusInputs :
          LET r == update_task_status_call(t, st, u)
          IN  r.ret = FALSE => r.tasks = tasks
    /\ \A t \in TaskIdInputs, u \in Users, kw \in TaskKwargs :
          LET r == update_task_call(t, u, kw)
          IN  r.ret = FALSE => r.tasks = tasks
    /\ \A t \in TaskIdInputs, u \in Users :
          LET r == delete_task_call(t, u)
          IN  r.ret = FALSE => r.tasks = tasks

\* a task on a personal board: a stranger's valid update is denied, the
\* creator's invalid one is rejected, and a missing board id is not found
C8_Witness ==
    \E t \in DOMAIN tasks, u \in Users, m \in BoardIdInputs :
        /\ task_join_found(t)
        /\ boards[tasks[t].board_id].board_type = "personal"
        /\ u # tasks[t].user_id /\ u # boards[tasks[t].board_id].owner_id
        /\ \A kw \in ValidTaskKwargs : update_task_call(t, u, kw).ret = FALSE
        /\ delete_task_call(t, u).ret = FALSE
        /\ update_task_status_call(t, "blocked", tasks[t].user_id).ret = FALSE
        /\ update_task_status_call(t, "done", tasks[t].user_id).ret = TRUE
        /\ m \notin DOMAIN boards
        /\ delete_board_call(m, u).ret = FALSE

(* ----------------------------------------------------------------------- *)
\* C9: create_board with an empty or whitespace-only name and add_task with
\* an empty or whitespace-only title return None and add no row, for every
\* requester, the board's owner and admins included.
C9_BlankRejected ==
    \A n \in BlankNames, u \in Users :
        /\ \A d \in Descriptions, ty \in BoardTypeInputs :
              LET r == create_board_call(n, u, d, ty)
              IN  r.ret = None /\ r.boards = boards /\ r.board_seq = board_seq
        /\ \A b \in BoardIdInputs, d \in Descriptions, st \in StatusInputs,
              p \in Priorities, dd \in DueDates :
              LET r == add_task_call(b, u, n, d, st, p, dd)
              IN  r.ret = None /\ r.tasks = tasks /\ r.task_seq = task_seq

\* a public board whose owner and an admin could both add a task with a
\* proper title: with a blank one both get None
C9_Witness ==
    \E b \in DOMAIN boards, m \in Users :
        /\ boards[b].board_type = "public"
        /\ is_admin(m) /\ m # boards[b].owner_id
        /\ add_task_call(b, m, ValidTitle, EmptyText, "todo", Zero, SqlNull).ret # None
        /\ add_task_call(b, boards[b].owner_id, ValidTitle, EmptyText, "todo", Zero, SqlNull).ret # None
        /\ \A n \in BlankNames :
              /\ add_task_call(b, m, n, EmptyText, "todo", Zero, SqlNull).ret = None
              /\ add_task_call(b, boards[b].owner_id, n, EmptyText, "todo", Zero, SqlNull).ret = None
              /\ create_board_call(n, m, EmptyText, "public").ret = None
        /\ Cardinality(BlankNames) = 2

(* ----------------------------------------------------------------------- *)
\* C10: every stored board has a name that is non-empty after trimming
\* whitespace and every stored task has a non-empty title, after any
\* sequence of operations.
C10_NamesNonEmpty ==
    /\ \A b \in DOMAIN boards : strip(boards[b].name) # <<>>
    /\ \A t \in DOMAIN tasks : tasks[t].title # <<>>

C15_CreateListRoundTrip ==
    [][\A b \in BoardIdInputs, ti \in ListedTitles, d \in ListedDescriptions,
          st \in ListedStatuses, p \in ListedPriorities, dd \in ListedDueDates :
          LET u == "A"
              r == add_task_call(b, u, ti, d, st, p, dd)
              before == list_tasks_by_board(b, u, NoFilter)
              after == list_tasks_by_board(b, u, NoFilter)'
          IN  (r.ret # None /\ tasks' = r.tasks /\ task_seq' = r.ret) =>
                  /\ before \subseteq after
                  /\ Cardinality(after \ before) = 1
                  /\ \A row \in after \ before :
                        /\ row.id = r.ret /\ row.board_id = b /\ row.user_id = u
                        /\ row.title = ti /\ row.description = d /\ row.status = st
                        /\ row.priority = p /\ row.due_date = dd]_vars

(* ----------------------------------------------------------------------- *)
\* C18: no forbidden status transition. For every existing task, every
\* target status among todo, doing, done and every requester who passes the
\* task write rule, update_task_status returns True, sets the status and the
\* updated-timestamp of that task and changes nothing else in the table.
C18_AnyTransition ==
    \A t \in DOMAIN tasks, u \in Users, st \in {"todo", "doing", "done"} :
        TaskWritable(t, u) =>
            LET r == update_task_status_call(t, st, u)
            IN  /\ r.ret = TRUE
                /\ r.tasks = [tasks EXCEPT ![t].status = st, ![t].updated_at = now]

(* ----------------------------------------------------------------------- *)
\* C19: every update_board, update_task and update_task_status that returns
\* True leaves the row's updated-timestamp equal to the store clock, which
\* is never behind the timestamp the row had, also when the field mapping
\* names updated_at itself.
C19_UpdatedAtRefreshed ==
    /\ \A b \in DOMAIN boards : boards[b].updated_at <= now
    /\ \A t \in DOMAIN tasks : tasks[t].updated_at <= now
    /\ \A b \in BoardIdInputs, u \in Users, kw \in BoardKwargs \cup ClockBoardKwargs :
          LET r == update_board_call(b, u, kw)
          IN  r.ret = TRUE => r.boards[b].updated_at = now
    /\ \A t \in TaskIdInputs, u \in Users :
          /\ \A kw \in TaskKwargs \cup ClockTaskKwargs :
                LET r == update_task_call(t, u, kw)
                IN  r.ret = TRUE => r.tasks[t].updated_at = now
          /\ \A st \in StatusInputs :
                LET r == update_task_status_call(t, st, u)
                IN  r.ret = TRUE => r.tasks[t].updated_at = now

\* a task that was updated at an earlier reading of the clock, and whose
\* creator may now update it with a mapping that names updated_at
C19_Witness ==
    \E t \in DOMAIN tasks :
        /\ tasks[t].status = "doing"
        /\ 0 < tasks[t].updated_at /\ tasks[t].updated_at < now
        /\ \E kw \in ClockTaskKwargs :
              /\ Has(kw.updated_at) /\ Has(kw.status)
              /\ Val(kw.updated_at) # now
              /\ update_task_call(t, tasks[t].user_id, kw).ret = TRUE
        /\ \E b \in DOMAIN boards : boards[b].updated_at < tasks[t].updated_at

(* ----------------------------------------------------------------------- *)
\* the outcome of the board write rule and of the read rule for an owner, a
\* board type and a requester
WriteRule(owner, ty, w) ==
    owner = w \/ (ty = "public" /\ w \in DOMAIN admin_roles /\ admin_roles[w] = 1)
ReadRule(owner, ty, w) == owner = w \/ ty = "public"

\* C20: a successful update_board(b, u, board_type=v) leaves every task row
\* as it was and sets the board's type to v; after it every decision on b
\* and on the tasks of b is the one the rules give for type v.
C20_VisibilityChange ==
    [][(boards' # boards /\ DOMAIN boards' = DOMAIN boards) =>
       \A b \in DOMAIN boards, u \in Users, v \in BOARD_TYPES :
          LET kw == [name |-> {}, board_type |-> {v}, owner_id |-> {}, updated_at |-> {}]
              r == update_board_call(b, u, kw)
              owner == boards[b].owner_id
          IN  (r.ret = TRUE /\ boards' = r.boards) =>
                /\ tasks' = tasks
                /\ boards'[b] = [boards[b] EXCEPT !.board_type = v, !.updated_at = now]
                /\ \A w \in Users :
                      /\ (get_board_details(b, w) # <<>>)' <=> ReadRule(owner, v, w)
                      /\ list_tasks_by_board(b, w, NoFilter)'
                            = IF ReadRule(owner, v, w) THEN TasksOfBoard(b) ELSE {}
                      /\ delete_board_call(b, w).ret' <=> WriteRule(owner, v, w)
                      /\ \A kw2 \in ValidBoardKwargs :
                            update_board_call(b, w, kw2).ret' <=> WriteRule(owner, v, w)
                      /\ \A t \in DOMAIN tasks :
                            tasks[t].board_id = b =>
                                /\ delete_task_call(t, w).ret'
                                      <=> (tasks[t].user_id = w \/ WriteRule(owner, v, w))
                                /\ update_task_status_call(t, "done", w).ret'
                                      <=> (tasks[t].user_id = w \/ WriteRule(owner, v, w))]_vars

\* a personal board holds a task that an admin other than the owner created,
\* which the admin could only add while the board was public: the admin is
\* now denied on the board and still allowed on the task
C20_Witness ==
    \E b \in DOMAIN boards, t \in DOMAIN tasks :
        LET m == tasks[t].user_id
        IN  /\ tasks[t].board_id = b
            /\ boards[b].board_type = "personal"
            /\ m # boards[b].owner_id /\ is_admin(m)
            /\ delete_board_call(b, m).ret = FALSE
            /\ get_board_details(b, m) = <<>>
            /\ add_task_call(b, m, ValidTitle, EmptyText, "todo", Zero, SqlNull).ret = None
            /\ delete_task_call(t, m).ret = TRUE
            /\ update_board_call(b, boards[b].owner_id,
                   [name |-> {}, board_type |-> {"public"}, owner_id |-> {},
                    updated_at |-> {}]).ret = TRUE

(* ----------------------------------------------------------------------- *)
\* C14: legacy migration. migrate_legacy_data returns True; it adds exactly
\* one personal board per distinct creator of the tasks that have no board
\* reference, owned by that creator, and points each such task at its
\* creator's new board; every other task and every board that existed is
\* unchanged; on a store without such tasks it changes nothing.
C14_LegacyMigration ==
    \A users \in Orders(legacy_users) :
        LET r == migrate_legacy_data_call(users)
            new == DOMAIN r.boards \ DOMAIN boards
        IN  /\ r.ret = TRUE
            /\ \A u \in legacy_users :
                  Cardinality({b \in new : r.boards[b].owner_id = u}) = 1
            /\ \A b \in new :
                  r.boards[b].owner_id \in legacy_users /\ r.boards[b].board_type = "personal"
            /\ DOMAIN r.tasks = DOMAIN tasks
            /\ \A t \in DOMAIN tasks :
                  IF tasks[t].board_id = None
                  THEN /\ r.tasks[t].board_id \in new
                       /\ r.boards[r.tasks[t].board_id].owner_id = tasks[t].user_id
                       /\ r.tasks[t] = [tasks[t] EXCEPT !.board_id = r.tasks[t].board_id]
                  ELSE r.tasks[t] = tasks[t]
            /\ \A b \in DOMAIN boards : b \in DOMAIN r.boards /\ r.boards[b] = boards[b]
            /\ (\A t \in DOMAIN tasks : tasks[t].board_id # None) =>
                  /\ r.boards = boards /\ r.tasks = tasks /\ r.board_seq = board_seq

\* a migrated store: two identities each own one board made by the
\* migration, which holds tasks they created; a task that was on a board
\* before is still there; no task is left without a board, and running the
\* migration again returns True and changes nothing
C14_Witness ==
    /\ tasks # <<>>
    /\ \A t \in DOMAIN tasks : tasks[t].board_id # None
    /\ \E b1 \in DOMAIN boards, b2 \in DOMAIN boards :
          /\ b1 # b2
          /\ boards[b1].name = PersonalBoard /\ boards[b2].name = PersonalBoard
          /\ boards[b1].owner_id # boards[b2].owner_id
          /\ \E t1 \in DOMAIN tasks, t2 \in DOMAIN tasks :
                /\ tasks[t1].board_id = b1 /\ tasks[t1].user_id = boards[b1].owner_id
                /\ tasks[t2].board_id = b2 /\ tasks[t2].user_id = boards[b2].owner_id
    /\ \E b \in DOMAIN boards, t \in DOMAIN tasks :
          boards[b].name # PersonalBoard /\ tasks[t].board_id = b
    /\ \A users \in Orders(legacy_users) :
          /\ migrate_legacy_data_call(users).ret = TRUE
          /\ migrate_legacy_data_call(users).boards = boards
          /\ migrate_legacy_data_call(users).tasks = tasks

(* ----------------------------------------------------------------------- *)
\* C16: initialize_database is idempotent. Called on the store as it is
\* after any sequence of operations it returns True and leaves every board,
\* task and admin-flag row, the id sequences and the set of tables and
\* indices as they were.
C16_InitializeIdempotent ==
    LET r == initialize_database_call
    IN  /\ r.ret = TRUE
        /\ r.schema = schema
        /\ r.boards = boards /\ r.tasks = tasks /\ r.admin_roles = admin_roles
        /\ r.board_seq = board_seq /\ r.task_seq = task_seq

\* a store that holds a board, a task and an admin flag, with all seven
\* tables and indices in place
C16_Witness ==
    /\ boards # <<>> /\ tasks # <<>> /\ admin_roles # <<>>
    /\ Cardinality(schema) = 7
    /\ initialize_database_call.ret = TRUE
    /\ initialize_database_call.boards = boards

(* ----------------------------------------------------------------------- *)
\* C11: connection release. Every connection a method opened is closed by
\* the time the method returns, on every way out: the open connections are
\* those of the calls still running, and none when no call is running.
C11_ConnectionsReleased ==
    open_connections = Cardinality({s \in Sessions : frames[s].conn = "open"})

(* ----------------------------------------------------------------------- *)
\* C12: store failures never escape. A call in which get_connection or a
\* statement raised sqlite3.Error ends by returning the failure value of its
\* method (False or None), and no call ends in a raised exception.
C12_StoreFailuresReturn ==
    \A s \in Sessions :
        /\ frames[s].outcome # "raised"
        /\ (frames[s].op = "idle" /\ frames[s].faulted) => frames[s].outcome \in {"False", "None"}

(* ----------------------------------------------------------------------- *)
\* C17: board reference valid at write time. Whenever a step inserts a task
\* row or changes the board reference of one, the board it names exists
\* when the write is committed, also when the calls of two sessions are
\* interleaved.
C17_BoardRefValidAtWrite ==
    [][\A t \in DOMAIN tasks' :
          (t \notin DOMAIN tasks \/ tasks'[t].board_id # tasks[t].board_id)
              => tasks'[t].board_id \in DOMAIN boards']_vars

(* ----------------------------------------------------------------------- *)
\* values a caller may pass as status_filter, sort_by and order
FilterInputs == VALID_STATUSES \cup {NoFilter, "blocked"}
\* three allow-listed fields, a column outside the allow-list and no column
SortInputs == {"created_at", "priority", "status", "board_id", "name"}
OrderInputs == {"ASC", "DESC", "desc"}

\* C21: silent normalization in list_tasks_by_board. For a requester with
\* read access, a status_filter outside VALID_STATUSES gives the listing of
\* no filter, a sort_by outside the allow-list gives the listing sorted by
\* created_at, an order other than ASC / DESC gives the ascending listing,
\* none of these empties the listing, and a valid status_filter gives exactly
\* the board's tasks of that status.
C21_SilentNormalization ==
    \A b \in BoardIdInputs, u \in Users :
        Readable(b, u) =>
            \A sf \in FilterInputs, sb \in SortInputs, o \in OrderInputs :
                LET r == list_tasks_by_board_sorted(b, u, sf, sb, o)
                    rows == {r[i] : i \in 1..Len(r)}
                IN  /\ sf \notin VALID_STATUSES =>
                          /\ r = list_tasks_by_board_sorted(b, u, NoFilter, sb, o)
                          /\ rows = TasksOfBoard(b)
                    /\ sb \notin valid_sort_fields =>
                          r = list_tasks_by_board_sorted(b, u, sf, "created_at", o)
                    /\ o \notin {"ASC", "DESC"} =>
                          r = list_tasks_by_board_sorted(b, u, sf, sb, "ASC")
                    /\ sf \in VALID_STATUSES =>
                          rows = {x \in TasksOfBoard(b) : x.status = sf}
                    /\ Len(r) = Cardinality(rows)

\* a board with two tasks of different status and priority is listed with an
\* invalid filter, sort field and order
C21_Witness ==
    \E b \in DOMAIN boards :
        /\ Len(list_tasks_by_board_sorted(b, "A", "blocked", "name", "desc")) = 2
        /\ Len(list_tasks_by_board_sorted(b, "A", "todo", "name", "desc")) = 1
        /\ list_tasks_by_board_sorted(b, "A", NoFilter, "priority", "DESC")
              # list_tasks_by_board_sorted(b, "A", NoFilter, "priority", "ASC")

(* ----------------------------------------------------------------------- *)
\* the admin-flag row of an identity: <<>> when it has none
AdminRow(u) == IF u \in DOMAIN admin_roles THEN <<admin_roles[u]>> ELSE <<>>

\* C22: the admin flag is an upsert with one row per identity. No identity is
\* an admin before a set_admin names it; set_admin(u, f) leaves is_admin(u)
\* equal to f and remove_admin(u) leaves it false, whatever row u had; the
\* call changes the row of no other identity and no board or task; and
\* is_admin(u) changes in no step other than a set_admin / remove_admin on u,
\* so it is the flag of the most recent one.
C22_AdminUpsert ==
    /\ \A u \in Users : ~is_admin(u) /\ AdminRow(u) = <<>>
    /\ [](\A u \in Users, f \in BOOLEAN :
            LET r == set_admin_call(u, f)
            IN  /\ r.ret
                /\ u \in DOMAIN r.admin_roles /\ (r.admin_roles[u] = 1) = f
                /\ \A v \in Users \ {u} :
                      /\ v \in DOMAIN r.admin_roles <=> v \in DOMAIN admin_roles
                      /\ v \in DOMAIN admin_roles => r.admin_roles[v] = admin_roles[v])
    /\ [][/\ \A u \in Users, f \in BOOLEAN :
                set_admin(u, f) =>
                    /\ is_admin(u)' = f
                    /\ Len(AdminRow(u)') = 1
                    /\ \A v \in Users \ {u} : AdminRow(v)' = AdminRow(v)
                    /\ boards' = boards /\ tasks' = tasks
          /\ \A u \in Users : remove_admin(u) => ~is_admin(u)'
          /\ \A u \in Users :
                AdminRow(u)' # AdminRow(u) => \E f \in BOOLEAN : set_admin(u, f)]_vars

\* two identities have a row, one set and one removed again, next to a board
\* with a task
C22_Witness ==
    /\ is_admin("M") /\ AdminRow("U") = <<0>> /\ AdminRow("A") = <<>>
    /\ boards # <<>> /\ tasks # <<>>

(* ----------------------------------------------------------------------- *)
\* the requester of a call in progress may write to its target, by the rule
\* of the method, in the store as it is now
AuthorizedNow(f) ==
    IF f.op \in {"update_board", "delete_board"} THEN BoardWritable(f.board_id, f.user_id)
    ELSE TaskWritable(f.task_id, f.user_id)

\* C23: authorization holds at the time of the write. When the calls of two
\* sessions interleave statement by statement, the UPDATE or DELETE of a call
\* changes a board or a task only if its requester is authorized in the
\* store as it is when that statement runs.
C23_AuthorizedAtWrite ==
    [][\A s \in Sessions :
          (/\ frames[s].pc = "write"
           /\ frames'[s].pc = "idle"
           /\ frames[s].op \in {"update_board", "delete_board", "update_task_status"}
           /\ boards' # boards \/ tasks' # tasks)
              => AuthorizedNow(frames[s])]_vars

(* ----------------------------------------------------------------------- *)
\* the step is a call made by u that may write a task
TaskCallBy(u) ==
    \/ \E b \in BoardIdInputs, ti \in Names, st \in StatusInputs :
          add_task(b, u, ti, EmptyText, st, Zero, SqlNull)
    \/ \E t \in TaskIdInputs, kw \in TaskKwargs : update_task(t, u, kw)
    \/ \E t \in TaskIdInputs, st \in StatusInputs : update_task_status(t, st, u)
    \/ \E t \in TaskIdInputs : delete_task(t, u)

\* C24: no call places a task on a board its requester cannot write to. When
\* a call made by u creates a task on an existing board b, or makes b the
\* board of an existing task, u is b's owner or an admin while b is public;
\* and no call changes the board reference or the creator of an existing task.
C24_NoForeignPlacement ==
    [][tasks' # tasks =>
          /\ \A u \in Users, t \in DOMAIN tasks' :
                (/\ TaskCallBy(u)
                 /\ t \notin DOMAIN tasks \/ tasks'[t].board_id # tasks[t].board_id
                 /\ tasks'[t].board_id \in DOMAIN boards)
                    => BoardWritable(tasks'[t].board_id, u)
          /\ \A t \in DOMAIN tasks \cap DOMAIN tasks' :
                /\ tasks'[t].board_id = tasks[t].board_id
                /\ tasks'[t].user_id = tasks[t].user_id]_vars

(* ----------------------------------------------------------------------- *)
\* C25: counts agree with listings. For every board b and requester u,
\* get_task_counts_by_board(b, u) has exactly the keys todo, doing and done;
\* with read access each count is the number of rows the listing filtered by
\* that status returns and the three counts sum to the number of rows of the
\* unfiltered listing; for a missing or inaccessible board all counts are 0.
C25_CountsAgree ==
    \A b \in BoardIdInputs, u \in Users :
        LET counts == get_task_counts_by_board(b, u)
            listed(s) == Len(list_tasks_by_board_sorted(b, u, s, "created_at", "ASC"))
        IN  /\ DOMAIN counts = {"todo", "doing", "done"}
            /\ IF Readable(b, u)
               THEN /\ \A s \in DOMAIN counts :
                          /\ counts[s] = listed(s)
                          /\ counts[s] = Cardinality(list_tasks_by_board(b, u, s))
                    /\ counts["todo"] + counts["doing"] + counts["done"] = listed(NoFilter)
               ELSE \A s \in DOMAIN counts : counts[s] = 0

\* two tasks of different status on a board its owner counts, a task on its
\* other board, and a requester without access
C25_Witness ==
    \E b \in DOMAIN boards, c \in DOMAIN boards :
        /\ b # c /\ Readable(b, "A") /\ ~Readable(b, "U") /\ Readable(c, "U")
        /\ get_task_counts_by_board(b, "A")["todo"] = 1
        /\ get_task_counts_by_board(c, "A")["doing"] = 1
        /\ get_task_counts_by_board(c, "A")["done"] = 0
        /\ get_task_counts_by_board(b, "U") = zero_counts
        /\ get_task_counts_by_board(c, "U")["doing"] = 1

====
